---- MODULE Spec2Model ----
(* The enemy-move scheduler of code/main.py: the game loop of Game.run, the     *)
(* fetch_moves background jobs started by async_calc_next_enemy_moves, the      *)
(* sliding-window rate limiter, the oracle call with its retries, and the       *)
(* fallback heuristic; and the coin threads of code/coin.py, started by         *)
(* generate_coins_with_gemini from Game.run.                                    *)
(*                                                                              *)
(* Granularity: one step of a thread is one Python statement of the source      *)
(* (the body of fallback's inner loop for one enemy is one step).  Background   *)
(* jobs are anonymous: the set of live threads is a bag of job records, one     *)
(* record per live fetch_moves thread holding its position and its locals.      *)
EXTENDS Integers, Sequences, FiniteSets, Bags, TLC

\* ---------------------------------------------------------------- bounds
MaxJobs == 2        \* live fetch_moves threads at a time
MaxThreads == 2     \* len(self.threads) in a game session
MaxCoinJobs == 2    \* live fetch_coin_positions threads at a time
MaxCoins == 2       \* coins in one reply of the oracle
MaxCalls == 17      \* len(self.threads) in a session of the rate limiter
MaxEnemies == 2     \* sprites in enemy_sprites in a game session
MaxFbEnemies == 2   \* sprites in enemy_sprites when fallback is called directly
NumMoves == 2       \* the num_moves the game loop asks for (50 in Game.run)
MaxNumMoves == 5    \* largest num_moves given to fallback_enemy_moves directly
MaxTime == 61       \* last reading of the clock

\* ------------------------------------------------------ program constants
RateLimit == 15     \* len(self.api_call_timestamps) >= 15
Window == 60        \* current_time - t < 60
Retries == 3        \* retries = 3

SpawnPos == <<0, 0>>     \* the one entry of spawn_positions
PlayerPos == <<2, 0>>    \* player.rect.center (the player stands still)
OraclePos == <<1, 1>>    \* a position the oracle answers with
PartialPos == <<8, 8>>   \* the well-formed part of a payload that fails to parse
PoisonPos == <<9, 9>>    \* the ill-formed part of a payload that fails to parse

VARIABLES
  running,              \* self.running
  stop_threads,         \* self.stop_threads
  enemy_moves,          \* self.enemy_moves: a list of lists of positions
  api_call_timestamps,  \* self.api_call_timestamps
  api_lock,             \* self.api_lock is held
  jobs,                 \* the live fetch_moves threads (a bag of records)
  nthreads,             \* len(self.threads)
  enemies,              \* rect.center of each sprite of enemy_sprites, in order
  player,               \* player.rect.center
  now,                  \* time.time()
  mainpc,               \* the main thread's position in Game.run
  lastCall,             \* how the last async_calc_next_enemy_moves call returned
  admitted,             \* history: the instants at which calls were admitted
  lastAttempt,          \* history: the latest admission attempt
  lastReject,           \* history: the clock reading of the latest rejected attempt
  coin_stop_threads,    \* coin_manager.stop_threads
  coin_jobs,            \* the live fetch_coin_positions threads (a bag of records)
  coin_sprites,         \* the number of coins in coin_sprites and all_sprites
  last_coin_generation_time, \* coin_manager.last_coin_generation_time
  queue_ids             \* history: for each queue of enemy_moves, the place in
                        \* enemy_sprites of the enemy it was built for

vars == <<running, stop_threads, enemy_moves, api_call_timestamps, api_lock,
          jobs, nthreads, enemies, player, now, mainpc, lastCall, admitted,
          lastAttempt, lastReject, coin_stop_threads, coin_jobs, coin_sprites,
          last_coin_generation_time, queue_ids>>

\* groups of variables, for the UNCHANGED clauses
flags == <<running, stop_threads>>
limiter == <<api_call_timestamps, api_lock>>
world == <<enemies, player>>
history == <<admitted, lastAttempt, lastReject>>
coinmgr == <<coin_stop_threads, coin_jobs, coin_sprites,
             last_coin_generation_time>>

\* ------------------------------------------------------------- helpers
Abs(d) == IF d < 0 THEN -d ELSE d

\* dx // abs(dx) if dx != 0 else 0
Sign(d) == IF d # 0 THEN d \div Abs(d) ELSE 0

\* None, as calc_next_enemy_move returns it
None == [ok |-> FALSE, moves |-> <<>>]

\* Python truth of new_moves: None and [] are both false
Truthy(res) == res.ok /\ Len(res.moves) > 0

\* The record of a thread that has just been started
NewJob(num) ==
  [pc |-> "begin", ct |-> 0, att |-> 0, err |-> "", wait |-> 0, res |-> None,
   n |-> 0, i |-> 0, locked |-> FALSE, num |-> num]

Replace(j, k) == (jobs (-) SetToBag({j})) (+) SetToBag({k})
Remove(j) == jobs (-) SetToBag({j})
Live == BagToSet(jobs)

\* ------------------------------------------------------- rate limiter
\* a window that still holds a timestamp exactly one window old
Prune_Closed(ts, current_time) ==
  SelectSeq(ts, LAMBDA t : current_time - t <= Window)

\* [t for t in self.api_call_timestamps if current_time - t < 60]
Prune(ts, current_time) == SelectSeq(ts, LAMBDA t : current_time - t < Window)

\* a limiter that turns no call away
LimitReached_Off(ts) ==
  FALSE

\* len(self.api_call_timestamps) >= 15
LimitReached(ts) == Len(ts) >= RateLimit

\* ------------------------------------------------------------- oracle
\* What client.models.generate_content can do: raise, or return a text.
\* An exception's message names the server errors 502 or 503, or it is of
\* another kind.
\* A text is malformed JSON, a JSON object, or a JSON list of items; an item
\* is schema-valid (a MoveList) or not.
ErrResp(msg) == [kind |-> "error", msg |-> msg, json |-> "none", items |-> <<>>]
TextResp(json, items) == [kind |-> "text", msg |-> "", json |-> json, items |-> items]
Item(valid, moves) == [valid |-> valid, moves |-> moves]

FailResponses ==
  { ErrResp("502"), ErrResp("503"), ErrResp("other"),
    TextResp("malformed", <<>>),
    TextResp("object", <<>>),
    TextResp("list", <<Item(TRUE, <<PartialPos>>), Item(FALSE, <<PoisonPos>>)>>) }

OkResponses ==
  { TextResp("list", <<>>),
    TextResp("list", <<Item(TRUE, <<OraclePos>>), Item(TRUE, <<>>)>>) }

Responses == FailResponses \cup OkResponses

\* a parser that keeps what it has read of a list whose items do not all parse
ParseResponse_Partial(r) ==
  IF r.json # "list" THEN None
  ELSE [ok |-> TRUE, moves |-> [k \in DOMAIN r.items |-> r.items[k].moves]]

\* json.loads, isinstance(data, list), MoveList.parse_obj, next_moves
ParseResponse(r) ==
  IF r.json # "list" THEN None
  ELSE IF \E k \in DOMAIN r.items : ~r.items[k].valid THEN None
  ELSE [ok |-> TRUE, moves |-> [k \in DOMAIN r.items |-> r.items[k].moves]]

\* a retry after any exception
Retryable_Any(r, attempt) ==
  attempt < Retries - 1

\* "502" in str(e) and attempt < retries - 1
Retryable(r, attempt) == r.msg = "502" /\ attempt < Retries - 1

\* ------------------------------------------------------------ fallback
\* a fallback that builds no move
FallbackMoves_None(e, p, num) ==
  <<>>

\* a fallback whose steps are two units long
FallbackMoves_Double(e, p, num) ==
  [k \in 1..num |-> <<e[1] + 2 * Sign(p[1] - e[1]), e[2] + 2 * Sign(p[2] - e[2])>>]

\* The moves fallback_enemy_moves builds for one enemy
FallbackMoves(e, p, num) ==
  [k \in 1..num |-> <<e[1] + Sign(p[1] - e[1]), e[2] + Sign(p[2] - e[2])>>]

\* ------------------------------------------------------------ game loop
\* a request made only when no queue set is installed
NeedsMoves_FirstOnly(em) ==
  Len(em) = 0

\* not self.enemy_moves or len(self.enemy_moves[0]) == 0
NeedsMoves(em) == Len(em) = 0 \/ Len(em[1]) = 0

\* pygame.sprite.spritecollide(self.player, self.enemy_sprites, ...)
Collides == \E k \in DOMAIN enemies : enemies[k] = player

\* a consumer that reads the front of a queue and leaves it there
ConsumedMoves_Keep(es, em) == em

\* for enemy, moves in zip(self.enemy_sprites, self.enemy_moves): pop and apply
ConsumedEnemies(es, em) ==
  [k \in DOMAIN es |->
     IF k <= Len(em) /\ Len(em[k]) > 0 THEN Head(em[k]) ELSE es[k]]

\* next_pos = moves.pop(0), for the queues that zip pairs with an enemy
ConsumedMoves(es, em) ==
  [k \in DOMAIN em |->
     IF k <= Len(es) /\ Len(em[k]) > 0 THEN Tail(em[k]) ELSE em[k]]

\* no admission attempt has been made yet
NoAttempt == [pre |-> <<>>, ct |-> 0, state |-> "none", post |-> <<>>]

\* ---------------------------------------------------------------- Init
\* CoinManager.__init__: no thread, no coin, stop_threads False
CoinInit ==
  /\ coin_stop_threads = FALSE
  /\ coin_jobs = EmptyBag
  /\ coin_sprites = 0
  /\ last_coin_generation_time = 0

\* Game.__init__
Init ==
  /\ running = TRUE
  /\ stop_threads = FALSE
  /\ enemy_moves = <<>>
  /\ api_call_timestamps = <<>>
  /\ api_lock = FALSE
  /\ jobs = EmptyBag
  /\ nthreads = 0
  /\ enemies = <<>>
  /\ player = PlayerPos
  /\ now = 0
  /\ mainpc = "top"
  /\ lastCall = "none"
  /\ admitted = <<>>
  /\ lastAttempt = NoAttempt
  /\ lastReject = -1
  /\ CoinInit
  /\ queue_ids = [k \in DOMAIN enemy_moves |-> k]

\* ------------------------------------------------------- main thread
\* async_calc_next_enemy_moves without its check of stop_threads
AsyncCalc_Unguarded(num, cap) ==
  /\ BagCardinality(jobs) < MaxJobs
  /\ nthreads < cap
  /\ lastCall' = "started"
  /\ nthreads' = nthreads + 1
  /\ jobs' = jobs (+) SetToBag({NewJob(num)})

\* async_calc_next_enemy_moves(num): the stop check, then the thread is
\* created, appended to self.threads and started (cap bounds len(self.threads))
AsyncCalc(num, cap) ==
  IF stop_threads
  THEN /\ lastCall' = "refused"
       /\ UNCHANGED <<jobs, nthreads>>
  ELSE /\ BagCardinality(jobs) < MaxJobs
       /\ nthreads < cap
       /\ lastCall' = "started"
       /\ nthreads' = nthreads + 1
       /\ jobs' = jobs (+) SetToBag({NewJob(num)})

\* while self.running: the event loop.  quit: a QUIT event is pending;
\* spawn: an enemy_event is pending
MainEvents(quit, spawn) ==
  /\ mainpc = "top"
  /\ running
  /\ running' = ~quit
  /\ enemies' = IF spawn /\ Len(enemies) < MaxEnemies
                THEN Append(enemies, SpawnPos) ELSE enemies
  /\ mainpc' = "moves"
  /\ UNCHANGED <<stop_threads, enemy_moves, limiter, jobs, nthreads, player, now,
                 lastCall, history, coinmgr,
                 queue_ids>>

\* if not self.enemy_moves or len(self.enemy_moves[0]) == 0: async_calc(50)
MainRequest(cap) ==
  /\ mainpc = "moves"
  /\ IF NeedsMoves(enemy_moves)
     THEN AsyncCalc(NumMoves, cap)
     ELSE UNCHANGED <<jobs, nthreads, lastCall>>
  /\ mainpc' = "consume"
  /\ UNCHANGED <<flags, enemy_moves, limiter, world, now, history, coinmgr,
                 queue_ids>>

\* a consumer that takes api_lock for the zip
MainConsume_Locked ==
  /\ mainpc = "consume"
  /\ ~api_lock
  /\ enemies' = ConsumedEnemies(enemies, enemy_moves)
  /\ enemy_moves' = ConsumedMoves(enemies, enemy_moves)
  /\ mainpc' = "update"
  /\ UNCHANGED <<flags, limiter, jobs, nthreads, player, now, lastCall, history, coinmgr,
                 queue_ids>>

\* if self.enemy_moves: for enemy, moves in zip(...): moves.pop(0) ...
MainConsume ==
  /\ mainpc = "consume"
  /\ enemies' = ConsumedEnemies(enemies, enemy_moves)
  /\ enemy_moves' = ConsumedMoves(enemies, enemy_moves)
  /\ mainpc' = "update"
  /\ UNCHANGED <<flags, limiter, jobs, nthreads, player, now, lastCall, history, coinmgr,
                 queue_ids>>

\* player_collision
PlayerCollision ==
  IF Collides
  THEN /\ running' = FALSE
       /\ stop_threads' = TRUE
  ELSE UNCHANGED flags

\* if self.player_collision(): break     (else the loop goes round);
\* dt: the time the frame has taken
MainUpdate(dt) ==
  /\ mainpc = "update"
  /\ now + dt <= MaxTime
  /\ now' = now + dt
  /\ PlayerCollision
  /\ mainpc' = IF Collides THEN "join" ELSE "top"
  /\ UNCHANGED <<enemy_moves, limiter, jobs, nthreads, world, lastCall, history, coinmgr,
                 queue_ids>>

\* the loop has ended: self.stop_threads = True
MainExitLoop ==
  /\ mainpc = "top"
  /\ ~running
  /\ stop_threads' = TRUE
  /\ mainpc' = "join"
  /\ UNCHANGED <<running, enemy_moves, limiter, jobs, nthreads, world, now,
                 lastCall, history, coinmgr,
                 queue_ids>>

\* a join without a timeout: it returns once every thread has ended
MainJoin_NoTimeout ==
  /\ mainpc = "join"
  /\ jobs = EmptyBag
  /\ mainpc' = "done"
  /\ UNCHANGED <<flags, enemy_moves, limiter, jobs, nthreads, world, now,
                 lastCall, history, coinmgr,
                 queue_ids>>

\* for thread in self.threads: thread.join(timeout=1): every join ends, by the
\* thread's exit or by the timeout, whatever the threads are doing
MainJoin ==
  /\ mainpc = "join"
  /\ mainpc' = "done"
  /\ UNCHANGED <<flags, enemy_moves, limiter, jobs, nthreads, world, now,
                 lastCall, history, coinmgr,
                 queue_ids>>

\* ----------------------------------------------------- fetch_moves
\* while not self.stop_threads: current_time = time.time()
JobBegin(j) ==
  /\ j.pc = "begin"
  /\ jobs' = IF stop_threads THEN Remove(j)
             ELSE Replace(j, [j EXCEPT !.pc = "lock", !.ct = now])
  /\ UNCHANGED <<flags, enemy_moves, limiter, nthreads, world, now, mainpc,
                 lastCall, history, coinmgr,
                 queue_ids>>

\* a thread that enters the section without waiting for api_lock
JobAcquire_NoLock(j) ==
  /\ j.pc = "lock"
  /\ api_lock' = TRUE
  /\ jobs' = Replace(j, [j EXCEPT !.pc = "prune"])
  /\ UNCHANGED <<flags, enemy_moves, api_call_timestamps, nthreads, world, now,
                 mainpc, lastCall, history, coinmgr, queue_ids>>

\* with self.api_lock:
JobAcquire(j) ==
  /\ j.pc = "lock"
  /\ ~api_lock
  /\ api_lock' = TRUE
  /\ jobs' = Replace(j, [j EXCEPT !.pc = "prune"])
  /\ UNCHANGED <<flags, enemy_moves, api_call_timestamps, nthreads, world, now,
                 mainpc, lastCall, history, coinmgr,
                 queue_ids>>

\* self.api_call_timestamps = [t for t in ... if current_time - t < 60]
JobPrune(j) ==
  /\ j.pc = "prune"
  /\ api_call_timestamps' = Prune(api_call_timestamps, j.ct)
  /\ lastAttempt' = [pre |-> api_call_timestamps, ct |-> j.ct,
                     state |-> "pending", post |-> <<>>]
  /\ jobs' = Replace(j, [j EXCEPT !.pc = "limit"])
  /\ UNCHANGED <<flags, enemy_moves, api_lock, nthreads, world, now, mainpc,
                 lastCall, admitted, lastReject, coinmgr,
                 queue_ids>>

\* if len(self.api_call_timestamps) >= 15: self.fallback_enemy_moves(...)
JobLimit(j) ==
  /\ j.pc = "limit"
  /\ IF LimitReached(api_call_timestamps)
     THEN /\ jobs' = Replace(j, [j EXCEPT !.pc = "fb_check", !.locked = TRUE, !.ct = 0])
          /\ lastAttempt' = [lastAttempt EXCEPT !.state = "rejected",
                                               !.post = api_call_timestamps]
          /\ lastReject' = j.ct
     ELSE /\ jobs' = Replace(j, [j EXCEPT !.pc = "append"])
          /\ UNCHANGED <<lastAttempt, lastReject>>
  /\ UNCHANGED <<flags, enemy_moves, limiter, nthreads, world, now, mainpc,
                 lastCall, admitted, coinmgr,
                 queue_ids>>

\* self.api_call_timestamps.append(current_time), and the lock is released
JobAppend(j) ==
  /\ j.pc = "append"
  /\ api_call_timestamps' = Append(api_call_timestamps, j.ct)
  /\ api_lock' = FALSE
  /\ admitted' = Append(SelectSeq(admitted, LAMBDA t : now - t < Window), now)
  /\ lastAttempt' = [lastAttempt EXCEPT !.state = "admitted",
                                        !.post = api_call_timestamps']
  /\ jobs' = Replace(j, [j EXCEPT !.pc = "oracle", !.ct = 0])
  /\ UNCHANGED <<flags, enemy_moves, nthreads, world, now, mainpc, lastCall,
                 lastReject, coinmgr,
                 queue_ids>>

\* calc_next_enemy_move: one generate_content call and what follows it;
\* err keeps the message of the exception, wait the length of the sleep
OracleRespond(j, r) ==
  /\ j.pc = "oracle"
  /\ jobs' = IF r.kind = "error"
             THEN IF Retryable(r, j.att)
                  THEN Replace(j, [j EXCEPT !.pc = "backoff", !.err = r.msg,
                                            !.wait = 2 ^ j.att])
                  ELSE Replace(j, [j EXCEPT !.pc = "got", !.att = 0,
                                            !.err = r.msg, !.res = None])
             ELSE Replace(j, [j EXCEPT !.pc = "got", !.att = 0,
                                       !.res = ParseResponse(r)])
  /\ UNCHANGED <<flags, enemy_moves, limiter, nthreads, world, now, mainpc,
                 lastCall, history, coinmgr,
                 queue_ids>>

\* generate_content never returns: the thread takes no further step
OracleHangs(j) ==
  /\ j.pc = "oracle"
  /\ jobs' = Remove(j)
  /\ UNCHANGED <<flags, enemy_moves, limiter, nthreads, world, now, mainpc,
                 lastCall, history, coinmgr,
                 queue_ids>>

\* time.sleep(2 ** attempt), then the next attempt
JobBackoff(j) ==
  /\ j.pc = "backoff"
  /\ jobs' = Replace(j, [j EXCEPT !.pc = "oracle", !.att = j.att + 1,
                                  !.err = "", !.wait = 0])
  /\ UNCHANGED <<flags, enemy_moves, limiter, nthreads, world, now, mainpc,
                 lastCall, history, coinmgr,
                 queue_ids>>

\* if self.stop_threads: return / if new_moves: ... else: ...
JobGot(j) ==
  /\ j.pc = "got"
  /\ jobs' = IF stop_threads THEN Remove(j)
             ELSE IF Truthy(j.res)
                  THEN Replace(j, [j EXCEPT !.pc = "install", !.err = ""])
                  ELSE Replace(j, [j EXCEPT !.pc = "fb_check", !.err = ""])
  /\ UNCHANGED <<flags, enemy_moves, limiter, nthreads, world, now, mainpc,
                 lastCall, history, coinmgr,
                 queue_ids>>

\* an installation that keeps one queue per enemy of enemy_sprites
JobInstall_Truncate(j) ==
  /\ j.pc = "install"
  /\ enemy_moves' = SubSeq(j.res.moves, 1, Len(enemies))
  /\ queue_ids' = [k \in DOMAIN enemy_moves' |-> k]
  /\ jobs' = Remove(j)
  /\ UNCHANGED <<flags, limiter, nthreads, world, now, mainpc, lastCall, history,
                 coinmgr>>

\* self.enemy_moves = new_moves
JobInstall(j) ==
  /\ j.pc = "install"
  /\ enemy_moves' = j.res.moves
  /\ queue_ids' = [k \in DOMAIN j.res.moves |-> k]
  /\ jobs' = Remove(j)
  /\ UNCHANGED <<flags, limiter, nthreads, world, now, mainpc, lastCall, history,
                 coinmgr>>

\* the thread leaves fallback_enemy_moves, and the with block if it is in one
Leave(j) ==
  /\ jobs' = Remove(j)
  /\ api_lock' = IF j.locked THEN FALSE ELSE api_lock

\* fallback_enemy_moves: if self.stop_threads: return
FbCheck(j) ==
  /\ j.pc = "fb_check"
  /\ IF stop_threads
     THEN Leave(j)
     ELSE /\ jobs' = Replace(j, [j EXCEPT !.pc = "fb_reset"])
          /\ api_lock' = api_lock
  /\ UNCHANGED <<flags, enemy_moves, api_call_timestamps, nthreads, world, now,
                 mainpc, lastCall, history, coinmgr,
                 queue_ids>>

\* a fallback that appends to the queue set it finds
FbReset_Keep(j) ==
  /\ j.pc = "fb_reset"
  /\ enemy_moves' = enemy_moves
  /\ queue_ids' = queue_ids
  /\ IF Len(enemies) = 0
     THEN Leave(j)
     ELSE /\ jobs' = Replace(j, [j EXCEPT !.pc = "fb_loop", !.n = Len(enemies), !.i = 1])
          /\ api_lock' = api_lock
  /\ UNCHANGED <<flags, api_call_timestamps, nthreads, world, now, mainpc,
                 lastCall, history, coinmgr>>

\* self.enemy_moves = [] and the start of "for enemy in self.enemy_sprites"
FbReset(j) ==
  /\ j.pc = "fb_reset"
  /\ enemy_moves' = <<>>
  /\ queue_ids' = <<>>
  /\ IF Len(enemies) = 0
     THEN Leave(j)
     ELSE /\ jobs' = Replace(j, [j EXCEPT !.pc = "fb_loop", !.n = Len(enemies), !.i = 1])
          /\ api_lock' = api_lock
  /\ UNCHANGED <<flags, api_call_timestamps, nthreads, world, now, mainpc,
                 lastCall, history, coinmgr>>

\* one enemy of the loop: build moves, self.enemy_moves.append(moves)
FbLoop(j) ==
  /\ j.pc = "fb_loop"
  /\ enemy_moves' = Append(enemy_moves, FallbackMoves(enemies[j.i], player, j.num))
  /\ queue_ids' = Append(queue_ids, j.i)
  /\ IF j.i = j.n
     THEN Leave(j)
     ELSE /\ jobs' = Replace(j, [j EXCEPT !.i = j.i + 1])
          /\ api_lock' = api_lock
  /\ UNCHANGED <<flags, api_call_timestamps, nthreads, world, now, mainpc,
                 lastCall, history, coinmgr>>

\* ------------------------------------------------------ specifications
\* A game session.  The clock reading does not change during the session.
Next ==
  \/ \E quit \in BOOLEAN, spawn \in BOOLEAN : MainEvents(quit, spawn)
  \/ MainRequest(MaxThreads)
  \/ MainConsume
  \/ MainUpdate(0)
  \/ MainExitLoop
  \/ MainJoin
  \/ \E j \in Live : JobBegin(j)
  \/ \E j \in Live : JobAcquire(j)
  \/ \E j \in Live : JobPrune(j)
  \/ \E j \in Live : JobLimit(j)
  \/ \E j \in Live : JobAppend(j)
  \/ \E j \in Live, r \in Responses : OracleRespond(j, r)
  \/ \E j \in Live : JobBackoff(j)
  \/ \E j \in Live : JobGot(j)
  \/ \E j \in Live : JobInstall(j)
  \/ \E j \in Live : FbCheck(j)
  \/ \E j \in Live : FbReset(j)
  \/ \E j \in Live : FbLoop(j)

Spec == Init /\ [][Next]_vars

\* The rate limiter, one call at a time: a session without enemies in which
\* no oracle call returns, so that every frame starts a thread.  A frame
\* takes a time of FrameTimes and ends once the thread it started has left
\* the limiter.
FrameTimes == {1, Window - RateLimit + 1}

NextAdmit ==
  \/ MainEvents(FALSE, FALSE)
  \/ MainRequest(MaxCalls)
  \/ MainConsume
  \/ /\ jobs = EmptyBag
     /\ \E dt \in FrameTimes : MainUpdate(dt)
  \/ \E j \in Live : JobBegin(j)
  \/ \E j \in Live : JobAcquire(j)
  \/ \E j \in Live : JobPrune(j)
  \/ \E j \in Live : JobLimit(j)
  \/ \E j \in Live : JobAppend(j)
  \/ \E j \in Live : OracleHangs(j)
  \/ \E j \in Live : FbCheck(j)
  \/ \E j \in Live : FbReset(j)

SpecAdmit == Init /\ [][NextAdmit]_vars

\* The rate limiter under concurrent threads: as above, but a frame may take
\* no time or half a window, and it ends once the threads it started have
\* read the clock: a thread may wait for api_lock over any number of frames.
StaleFrameTimes == {0, Window \div 2}

NextStale ==
  \/ MainEvents(FALSE, FALSE)
  \/ MainRequest(MaxCalls)
  \/ MainConsume
  \/ /\ \A j \in Live : j.pc # "begin"
     /\ \E dt \in StaleFrameTimes : MainUpdate(dt)
  \/ \E j \in Live : JobBegin(j)
  \/ \E j \in Live : JobAcquire(j)
  \/ \E j \in Live : JobPrune(j)
  \/ \E j \in Live : JobLimit(j)
  \/ \E j \in Live : JobAppend(j)
  \/ \E j \in Live : OracleHangs(j)
  \/ \E j \in Live : FbCheck(j)
  \/ \E j \in Live : FbReset(j)

SpecStale == Init /\ [][NextStale]_vars

\* ------------------------------------------------- claims on a game session

\* C1: at most one fetch_moves job is in flight at any time: a call of
\* async_calc_next_enemy_moves made while an earlier job has not finished
\* starts no second job.
C1_AtMostOneJobInFlight ==
  BagCardinality(jobs) <= 1

\* C2: once the shutdown sequence of Game.run (stop_threads set, every thread
\* joined with a timeout) has finished, no job writes enemy_moves again.
C2_NoWriteAfterShutdown ==
  [][mainpc = "done" => enemy_moves' = enemy_moves]_vars

\* C4: a tick that reaches the request with stop_threads false and every
\* queue of enemy_moves empty (or no queue set installed) starts a
\* fetch_moves job in that tick.
C4_NoStall ==
  [][(/\ mainpc = "moves"
      /\ mainpc' = "consume"
      /\ ~stop_threads
      /\ \A k \in DOMAIN enemy_moves : Len(enemy_moves[k]) = 0)
     => (/\ BagCardinality(jobs') = BagCardinality(jobs) + 1
         /\ nthreads' = nthreads + 1
         /\ \E k \in BagToSet(jobs') : k.pc = "begin")]_vars

\* a tick has just started a job although a queue set was installed: both of
\* its queues had run empty
C4_Witness ==
  /\ mainpc = "consume"
  /\ ~stop_threads
  /\ lastCall = "started"
  /\ Len(enemy_moves) = 2
  /\ \A k \in DOMAIN enemy_moves : Len(enemy_moves[k]) = 0
  /\ \E j \in Live : j.pc = "begin"

\* C6: a job whose oracle call has ended in failure (an error that is not
\* retried, retries used up, a payload that is no list or does not parse)
\* goes on, when stop_threads is false, to fallback_enemy_moves, whose
\* check of the flag lets it through to reset enemy_moves and to append one
\* queue of fallback moves for each enemy; and no position of a payload
\* that failed ever stands in enemy_moves.
C6_FailureAbsorbed ==
  /\ [](\A k \in DOMAIN enemy_moves : \A m \in DOMAIN enemy_moves[k] :
          enemy_moves[k][m] \notin {PartialPos, PoisonPos})
  /\ [][\A j \in Live :
          (/\ ~j.res.ok
           /\ ~j.locked
           /\ ~stop_threads
           /\ CopiesIn(j, jobs') < CopiesIn(j, jobs))
          => (/\ j.pc = "got" =>
                   CopiesIn([j EXCEPT !.pc = "fb_check", !.err = ""], jobs')
                     > CopiesIn([j EXCEPT !.pc = "fb_check", !.err = ""], jobs)
              /\ j.pc = "fb_check" =>
                   CopiesIn([j EXCEPT !.pc = "fb_reset"], jobs')
                     > CopiesIn([j EXCEPT !.pc = "fb_reset"], jobs)
              /\ j.pc = "fb_reset" => enemy_moves' = <<>>
              /\ j.pc = "fb_loop" =>
                   /\ Len(enemy_moves') = Len(enemy_moves) + 1
                   /\ enemy_moves'[Len(enemy_moves')]
                        = FallbackMoves(enemies[j.i], player, j.num))]_vars

\* a job whose oracle call failed is in the fallback, which has installed
\* the queue of the first of two enemies
C6_Witness ==
  /\ ~stop_threads
  /\ Len(enemies) = 2
  /\ \E j \in Live :
       /\ j.pc = "fb_loop"
       /\ ~j.res.ok
       /\ ~j.locked
       /\ j.i = 2
       /\ enemy_moves = <<FallbackMoves(enemies[1], player, j.num)>>

\* C7: the consumer step of a tick never finds enemy_moves partly written:
\* when the main thread is about to run the zip over enemy_sprites and
\* enemy_moves, no fallback is between its reset of enemy_moves and the
\* append of its last queue.
C7_AtomicInstallation ==
  mainpc = "consume" =>
    ~\E j \in Live : j.pc = "fb_loop" /\ Len(enemy_moves) < j.n

\* fallback_enemy_moves called on its own: any enemies, any target, any
\* num_moves, an old queue set or none, the stop flag set or not
FbPositions == {<<100, 100>>, <<100, 70>>, <<101, 99>>, <<99, 101>>}

FbEnemies ==
  UNION {[1..n -> FbPositions] : n \in 0..MaxFbEnemies}

InitFallback ==
  /\ running = TRUE
  /\ stop_threads \in BOOLEAN
  /\ enemy_moves \in {<<>>, <<<<OraclePos>>>>}
  /\ api_call_timestamps = <<>>
  /\ api_lock = FALSE
  /\ \E num \in 1..MaxNumMoves :
       jobs = SetToBag({[NewJob(num) EXCEPT !.pc = "fb_check"]})
  /\ nthreads = 1
  /\ enemies \in FbEnemies
  /\ player \in FbPositions
  /\ now = 0
  /\ mainpc = "top"
  /\ lastCall = "started"
  /\ admitted = <<>>
  /\ lastAttempt = NoAttempt
  /\ lastReject = -1
  /\ CoinInit
  /\ queue_ids = [k \in DOMAIN enemy_moves |-> k]

NextFallback ==
  \/ \E j \in Live : FbCheck(j)
  \/ \E j \in Live : FbReset(j)
  \/ \E j \in Live : FbLoop(j)

SpecFallback == InitFallback /\ [][NextFallback]_vars

\* The methods of Game called in any order: async_calc_next_enemy_moves and
\* player_collision by any caller, with the started threads running; an
\* enemy is away from the player or has reached it.
InitCalls ==
  /\ running = TRUE
  /\ stop_threads = FALSE
  /\ enemy_moves = <<>>
  /\ api_call_timestamps = <<>>
  /\ api_lock = FALSE
  /\ jobs = EmptyBag
  /\ nthreads = 0
  /\ enemies \in {<<SpawnPos>>, <<PlayerPos>>}
  /\ player = PlayerPos
  /\ now = 0
  /\ mainpc = "top"
  /\ lastCall = "none"
  /\ admitted = <<>>
  /\ lastAttempt = NoAttempt
  /\ lastReject = -1
  /\ CoinInit
  /\ queue_ids = [k \in DOMAIN enemy_moves |-> k]

CallAsyncCalc ==
  /\ AsyncCalc(NumMoves, MaxThreads)
  /\ UNCHANGED <<flags, enemy_moves, limiter, world, now, mainpc, history, coinmgr,
                 queue_ids>>

CallPlayerCollision ==
  /\ PlayerCollision
  /\ UNCHANGED <<enemy_moves, limiter, jobs, nthreads, world, now, mainpc,
                 lastCall, history, coinmgr,
                 queue_ids>>

NextCalls ==
  \/ CallAsyncCalc
  \/ CallPlayerCollision
  \/ \E j \in Live : JobBegin(j)
  \/ \E j \in Live : JobAcquire(j)
  \/ \E j \in Live : JobPrune(j)
  \/ \E j \in Live : JobLimit(j)
  \/ \E j \in Live : JobAppend(j)
  \/ \E j \in Live, r \in Responses : OracleRespond(j, r)
  \/ \E j \in Live : JobBackoff(j)
  \/ \E j \in Live : JobGot(j)
  \/ \E j \in Live : JobInstall(j)
  \/ \E j \in Live : FbCheck(j)
  \/ \E j \in Live : FbReset(j)
  \/ \E j \in Live : FbLoop(j)

SpecCalls == InitCalls /\ [][NextCalls]_vars

\* the failures of the oracle in a session where it never succeeds: the
\* error that is retried, and the replies that do not parse
LiveFailures ==
  {r \in FailResponses : r.kind = "error" => r.msg = "502"}

\* A session with an oracle that never answers well: every call fails or
\* never returns.  No QUIT event arrives and one enemy spawns, in the first
\* tick or, a thread having started for an empty game, in the second.
\* The clock stands still: the ticks of the session fall in one window of
\* the rate limiter.  The main thread and the threads are scheduled fairly,
\* and every oracle call ends in one of the two ways.
MainLive ==
  \/ \E spawn \in BOOLEAN :
       MainEvents(FALSE, /\ Len(enemies) = 0
                         /\ spawn \/ nthreads > 0)
  \/ MainRequest(MaxCalls)
  \/ MainConsume
  \/ MainUpdate(0)
  \/ MainJoin

JobLive ==
  \/ \E j \in Live : JobBegin(j)
  \/ \E j \in Live : JobAcquire(j)
  \/ \E j \in Live : JobPrune(j)
  \/ \E j \in Live : JobLimit(j)
  \/ \E j \in Live : JobAppend(j)
  \/ \E j \in Live : JobBackoff(j)
  \/ \E j \in Live : JobGot(j)
  \/ \E j \in Live : FbCheck(j)
  \/ \E j \in Live : FbReset(j)
  \/ \E j \in Live : FbLoop(j)

OracleLive ==
  \/ \E j \in Live, r \in LiveFailures : OracleRespond(j, r)
  \/ \E j \in Live : OracleHangs(j)

NextLive == MainLive \/ JobLive \/ OracleLive

SpecLive ==
  /\ Init
  /\ [][NextLive]_vars
  /\ WF_vars(MainLive)
  /\ WF_vars(JobLive)
  /\ WF_vars(OracleLive)

\* ------------------------------------------------ claims on the rate limiter

\* C3: whatever the number of concurrent jobs and however the clock moves
\* forward, at most 15 oracle calls are admitted at instants that lie in
\* one trailing window of 60 time units, although a job records the clock
\* reading it took before it had the lock.
C3_SlidingWindowBound ==
  Cardinality({k \in DOMAIN admitted : now - admitted[k] < Window})
    <= RateLimit

\* C9: an attempt at time ct is admitted exactly when fewer than 15 of the
\* recorded timestamps t have ct - t < 60, and an admitted attempt records
\* ct; after 15 admissions at 0..14 the attempt at 15 is rejected and the
\* attempt at 61 is admitted.
C9_AdmissionDecision ==
  LET a == lastAttempt
      recent == {k \in DOMAIN a.pre : a.ct - a.pre[k] < Window}
      decided == a.state \in {"admitted", "rejected"}
      first == [k \in 1..RateLimit |-> k - 1]
  IN  /\ a.state = "admitted" =>
           /\ Cardinality(recent) < RateLimit
           /\ Len(a.post) = Cardinality(recent) + 1
           /\ a.post[Len(a.post)] = a.ct
      /\ a.state = "rejected" => Cardinality(recent) >= RateLimit
      /\ (decided /\ a.pre = first /\ a.ct = RateLimit) => a.state = "rejected"
      /\ (decided /\ a.pre = first /\ a.ct = Window + 1) => a.state = "admitted"

\* 15 admissions at 0..14, the attempt at 15 rejected, the attempt at 61
\* admitted and recorded
C9_Witness ==
  /\ lastReject = RateLimit
  /\ lastAttempt.state = "admitted"
  /\ lastAttempt.ct = Window + 1
  /\ lastAttempt.pre = [k \in 1..RateLimit |-> k - 1]
  /\ lastAttempt.post = [k \in 1..RateLimit - 1 |->
                           IF k < RateLimit - 1 THEN k + 1 ELSE Window + 1]

\* ---------------------------------------------------- claims on the fallback

\* C8: the moves fallback_enemy_moves builds for an entity chain: the k-th
\* move is one step from the (k-1)-th towards the target, so that an entity
\* at (100,100) with the target at (100,70) gets (100,99), (100,98), ...
C8_MovesChain ==
  \A k \in DOMAIN enemy_moves : \A m \in 2..Len(enemy_moves[k]) :
    enemy_moves[k][m]
      = <<enemy_moves[k][m - 1][1] + Sign(player[1] - enemy_moves[k][m - 1][1]),
          enemy_moves[k][m - 1][2] + Sign(player[2] - enemy_moves[k][m - 1][2])>>

\* ------------------------------------------------- claims on the call harness

\* C10: once stop_threads is true no thread is created or started, and a
\* call of async_calc_next_enemy_moves returns without a new thread and
\* without a change of the timestamps or of enemy_moves.
C10_NoCycleAfterStop ==
  [][stop_threads =>
       /\ nthreads' = nthreads
       /\ BagCardinality(jobs') <= BagCardinality(jobs)
       /\ lastCall' # lastCall =>
            /\ lastCall' = "refused"
            /\ jobs' = jobs
            /\ api_call_timestamps' = api_call_timestamps
            /\ enemy_moves' = enemy_moves]_vars

\* async_calc_next_enemy_moves has been called after player_collision set
\* stop_threads
C10_Witness ==
  /\ stop_threads
  /\ lastCall = "refused"

\* ------------------------------------------------------- claims on liveness

NextShutdown ==
  \/ \E quit \in BOOLEAN, spawn \in BOOLEAN :
       MainEvents(quit, spawn /\ Len(enemies) = 0)
  \/ MainRequest(MaxThreads)
  \/ MainConsume
  \/ MainUpdate(0)
  \/ MainExitLoop
  \/ MainJoin
  \/ \E j \in Live : JobBegin(j)
  \/ \E j \in Live : JobAcquire(j)
  \/ \E j \in Live : JobPrune(j)
  \/ \E j \in Live : JobLimit(j)
  \/ \E j \in Live : JobAppend(j)
  \/ \E j \in Live, r \in Responses : OracleRespond(j, r)
  \/ \E j \in Live : JobBackoff(j)
  \/ \E j \in Live : JobGot(j)
  \/ \E j \in Live : JobInstall(j)
  \/ \E j \in Live : FbCheck(j)
  \/ \E j \in Live : FbReset(j)
  \/ \E j \in Live : FbLoop(j)

SpecShutdown ==
  /\ Init
  /\ [][NextShutdown]_vars
  /\ WF_vars(MainExitLoop)
  /\ WF_vars(MainJoin)

\* C11: once the game loop has been left, the shutdown sequence (set
\* stop_threads, join every thread with a timeout) reaches its end, whatever
\* the threads do, oracle calls that never return included.
C11_ShutdownTerminates ==
  ((mainpc = "top" /\ ~running) \/ mainpc = "join") ~> (mainpc = "done")

\* the shutdown sequence has ended while an oracle call is still out
C11_Witness ==
  /\ mainpc = "done"
  /\ \E j \in Live : j.pc = "oracle"

\* C12: the main thread is never held up by oracle work: wherever it stands
\* in a tick, its next statement can run, whether threads are waiting on
\* the oracle, sleeping in a backoff or holding api_lock.  (The request of
\* a tick is stated where the session's bounds leave a thread to start.)
C12_LoopNeverBlocked ==
  /\ (mainpc = "top" /\ running) => ENABLED MainEvents(FALSE, FALSE)
  /\ (/\ mainpc = "moves"
      /\ \/ Len(enemy_moves) > 0 /\ Len(enemy_moves[1]) > 0
         \/ stop_threads
         \/ BagCardinality(jobs) < MaxJobs /\ nthreads < MaxThreads)
       => ENABLED MainRequest(MaxThreads)
  /\ mainpc = "consume" => ENABLED MainConsume
  /\ mainpc = "update" => ENABLED MainUpdate(0)

\* the main thread is in the middle of a tick while one thread holds
\* api_lock and another sleeps in a backoff
C12_Witness ==
  /\ mainpc = "consume"
  /\ api_lock
  /\ \E j \in Live : j.pc = "backoff"
  /\ \E j \in Live : j.pc \in {"prune", "limit", "append"}

\* ------------------------------------------- more claims on the fallback

\* C13: what a call of fallback_enemy_moves installs is a function of the
\* enemy positions, the player position and num_moves alone: when the call
\* ends, enemy_moves holds for each enemy, in order, the queue built from
\* its position, whatever enemy_moves held before.
C13_FallbackDeterminism ==
  [][\A j \in Live :
       /\ (j.pc = "fb_reset" /\ Len(enemies) = 0 /\ jobs' # jobs)
            => enemy_moves' = <<>>
       /\ (j.pc = "fb_loop" /\ j.i = j.n /\ jobs' # jobs)
            => enemy_moves' = [k \in DOMAIN enemies |->
                                 FallbackMoves(enemies[k], player, j.num)]]_vars

\* a call has ended for two enemies at one position: their queues are the
\* same
C13_Witness ==
  /\ jobs = EmptyBag
  /\ ~stop_threads
  /\ Len(enemies) = 2
  /\ enemies[1] = enemies[2]
  /\ Len(enemy_moves) = 2
  /\ Len(enemy_moves[1]) > 1
  /\ enemy_moves[1] = enemy_moves[2]

\* C14: for an entity strictly left of and above the target, the positions
\* one fallback call produces, taken in order after the entity's own, never
\* decrease in x or y, change each coordinate by at most 1 per step, never
\* pass the target's coordinate, and keep a coordinate that equals the
\* target's.
C14_MonotonicApproach ==
  [][\A j \in Live :
       (/\ j.pc = "fb_loop"
        /\ jobs' # jobs
        /\ enemies[j.i][1] < player[1]
        /\ enemies[j.i][2] < player[2])
       => LET q == enemy_moves'[Len(enemy_moves')]
              at(m) == IF m = 0 THEN enemies[j.i] ELSE q[m]
          IN  /\ Len(q) = j.num
              /\ \A m \in 1..Len(q) : \A c \in 1..2 :
                   /\ at(m)[c] >= at(m - 1)[c]
                   /\ at(m)[c] - at(m - 1)[c] <= 1
                   /\ at(m)[c] <= player[c]
                   /\ at(m - 1)[c] = player[c] => at(m)[c] = player[c]]_vars

\* a call has ended for an entity left of and above the target, one step
\* away from it in x
C14_Witness ==
  /\ jobs = EmptyBag
  /\ ~stop_threads
  /\ Len(enemies) = 1
  /\ enemies[1][1] + 1 = player[1]
  /\ enemies[1][2] < player[2]
  /\ Len(enemy_moves) = 1
  /\ Len(enemy_moves[1]) > 1
  /\ enemy_moves[1][1][1] = player[1]

\* ------------------------------------------------- claims on the oracle call

\* C15: when an oracle invocation fails with a transient server-side error
\* (of the 5xx class) the call waits 2^attempt time units and invokes the
\* oracle again, as long as fewer than 3 invocations were made; the third
\* such failure ends the call, with a failure and with no wait.
C15_RetryExhaustion ==
  [][\A j \in Live : \A k \in BagToSet(jobs') :
       (/\ j.pc = "oracle"
        /\ CopiesIn(j, jobs') < CopiesIn(j, jobs)
        /\ CopiesIn(k, jobs') > CopiesIn(k, jobs)
        /\ k.err \in {"502", "503"})
       => IF j.att < Retries - 1
          THEN k.pc = "backoff" /\ k.wait = 2 ^ j.att /\ k.att = j.att
          ELSE k.pc = "got" /\ ~k.res.ok /\ k.wait = 0]_vars

C18_RejectionBranch ==
  /\ [](\A j \in Live : j.locked => j.pc \in {"fb_check", "fb_reset", "fb_loop"})
  /\ [][\A j \in Live :
          /\ (/\ j.pc = "limit"
              /\ Len(api_call_timestamps) >= RateLimit
              /\ CopiesIn(j, jobs') < CopiesIn(j, jobs))
             => /\ api_call_timestamps' = api_call_timestamps
                /\ \E k \in BagToSet(jobs') :
                     /\ CopiesIn(k, jobs') > CopiesIn(k, jobs)
                     /\ k.pc = "fb_check"
                     /\ k.locked
          /\ (j.locked /\ CopiesIn(j, jobs') < CopiesIn(j, jobs))
             => /\ api_call_timestamps' = api_call_timestamps
                /\ \A k \in BagToSet(jobs') :
                     CopiesIn(k, jobs') > CopiesIn(k, jobs)
                       => k.locked /\ k.pc \in {"fb_reset", "fb_loop"}]_vars

\* a thread turned away with 15 timestamps in the window is in the
\* fallback, building the queue of the enemy
C18_Witness ==
  /\ Len(api_call_timestamps) = RateLimit
  /\ lastAttempt.state = "rejected"
  /\ lastAttempt.post = lastAttempt.pre
  /\ \E j \in Live : j.locked /\ j.pc = "fb_loop"

\* ------------------------------------------------- claims on the consumer

CoinInterval == 10

\* a fetch_coin_positions thread: its position and the coins of the reply
\* that it has not added yet
NewCoinJob == [pc |-> "begin", left |-> 0]

LiveCoins == BagToSet(coin_jobs)

CoinReplace(c, d) == (coin_jobs (-) SetToBag({c})) (+) SetToBag({d})

CoinRemove(c) == coin_jobs (-) SetToBag({c})

\* the replies of the oracle to the coin prompt: an exception (json.loads
\* raising included), a payload that is no list, a list of n coins
CoinResponses ==
  {[kind |-> "error", n |-> 0], [kind |-> "object", n |-> 0]}
    \cup {[kind |-> "list", n |-> n] : n \in 0..MaxCoins}

\* generate_coins_with_gemini: the thread is created, appended to
\* coin_manager.threads and started
GenerateCoins ==
  /\ BagCardinality(coin_jobs) < MaxCoinJobs
  /\ coin_jobs' = coin_jobs (+) SetToBag({NewCoinJob})

\* Game.run, before the loop: the initial coins
MainStart ==
  /\ mainpc = "start"
  /\ GenerateCoins
  /\ mainpc' = "top"
  /\ UNCHANGED <<flags, enemy_moves, limiter, jobs, nthreads, world, now,
                 lastCall, history, coin_stop_threads, coin_sprites,
                 last_coin_generation_time,
                 queue_ids>>

\* the consumer, then the periodic coin generation:
\* if current_time - last_coin_generation_time >= coin_generation_interval
MainConsumeCoins ==
  /\ mainpc = "consume"
  /\ enemies' = ConsumedEnemies(enemies, enemy_moves)
  /\ enemy_moves' = ConsumedMoves(enemies, enemy_moves)
  /\ IF now - last_coin_generation_time >= CoinInterval
     THEN /\ GenerateCoins
          /\ last_coin_generation_time' = now
     ELSE UNCHANGED <<coin_jobs, last_coin_generation_time>>
  /\ mainpc' = "update"
  /\ UNCHANGED <<flags, limiter, jobs, nthreads, player, now, lastCall, history,
                 coin_stop_threads, coin_sprites,
                 queue_ids>>

\* while not self.stop_threads: of the coin manager
CoinBegin(c) ==
  /\ c.pc = "begin"
  /\ coin_jobs' = IF coin_stop_threads
                  THEN CoinRemove(c)
                  ELSE CoinReplace(c, [c EXCEPT !.pc = "oracle"])
  /\ UNCHANGED <<flags, enemy_moves, limiter, jobs, nthreads, world, now, mainpc,
                 lastCall, history, coin_stop_threads, coin_sprites,
                 last_coin_generation_time,
                 queue_ids>>

\* generate_content returns or raises; json.loads; isinstance(data, list).
\* A thread that has no reply yet stays where it is.
CoinOracleRespond(c, r) ==
  /\ c.pc = "oracle"
  /\ coin_jobs' = IF r.kind = "list" /\ r.n > 0
                  THEN CoinReplace(c, [c EXCEPT !.pc = "add", !.left = r.n])
                  ELSE CoinRemove(c)
  /\ UNCHANGED <<flags, enemy_moves, limiter, jobs, nthreads, world, now, mainpc,
                 lastCall, history, coin_stop_threads, coin_sprites,
                 last_coin_generation_time,
                 queue_ids>>

\* for coin_data in data: Coin(...), coin_sprites.add, all_sprites.add; after
\* the last coin the thread breaks out of its loop and ends
CoinAdd(c) ==
  /\ c.pc = "add"
  /\ coin_sprites' = coin_sprites + 1
  /\ coin_jobs' = IF c.left > 1
                  THEN CoinReplace(c, [c EXCEPT !.left = c.left - 1])
                  ELSE CoinRemove(c)
  /\ UNCHANGED <<flags, enemy_moves, limiter, jobs, nthreads, world, now, mainpc,
                 lastCall, history, coin_stop_threads, last_coin_generation_time,
                 queue_ids>>

\* Game.run from its first statement, with the coin manager: a session
\* without enemies, of fetch_moves threads whose oracle call never returns
\* and of the coin threads
InitCoins ==
  /\ running = TRUE
  /\ stop_threads = FALSE
  /\ enemy_moves = <<>>
  /\ api_call_timestamps = <<>>
  /\ api_lock = FALSE
  /\ jobs = EmptyBag
  /\ nthreads = 0
  /\ enemies = <<>>
  /\ player = PlayerPos
  /\ now = 0
  /\ mainpc = "start"
  /\ lastCall = "none"
  /\ admitted = <<>>
  /\ lastAttempt = NoAttempt
  /\ lastReject = -1
  /\ CoinInit
  /\ queue_ids = [k \in DOMAIN enemy_moves |-> k]

NextCoins ==
  \/ MainStart
  \/ \E quit \in BOOLEAN : MainEvents(quit, FALSE)
  \/ MainRequest(MaxThreads)
  \/ MainConsumeCoins
  \/ \E dt \in {0, CoinInterval} : MainUpdate(dt)
  \/ MainExitLoop
  \/ MainJoin
  \/ \E j \in Live : JobBegin(j)
  \/ \E j \in Live : JobAcquire(j)
  \/ \E j \in Live : JobPrune(j)
  \/ \E j \in Live : JobLimit(j)
  \/ \E j \in Live : JobAppend(j)
  \/ \E j \in Live : OracleHangs(j)
  \/ \E c \in LiveCoins : CoinBegin(c)
  \/ \E c \in LiveCoins, r \in CoinResponses : CoinOracleRespond(c, r)
  \/ \E c \in LiveCoins : CoinAdd(c)

SpecCoins == InitCoins /\ [][NextCoins]_vars

\* ------------------------------------------------ claims on coin generation

\* C16: at most one fetch_coin_positions thread is alive at any time: a
\* periodic request made while the earlier coin thread still waits for the
\* oracle starts no second one.
C16_CoinSingleFlight ==
  BagCardinality(coin_jobs) <= 1

\* C17: once Game.run has set stop_threads, no background thread adds a coin
\* to the sprite groups or writes enemy_moves.
C17_JobsObserveShutdown ==
  [][stop_threads
       => /\ coin_sprites' = coin_sprites
          /\ enemy_moves' = enemy_moves]_vars

\* ------------------------------------------- claims on the queues' owners

\* C21: the consumer applies a queue to the enemy it was built for: the
\* queue that zip pairs with the k-th enemy of enemy_sprites, when it holds
\* a position, is the one its cycle built for the k-th enemy of the
\* snapshot it was given.
C21_PositionalCorrespondence ==
  [][(mainpc = "consume" /\ mainpc' = "update")
       => \A k \in DOMAIN enemies \cap DOMAIN enemy_moves :
            enemy_moves[k] # <<>> => queue_ids[k] = k]_vars

\* C22 as stated: a thread whose oracle call has returned a payload that
\* parsed as a list of move lists, the empty list included, and that finds
\* stop_threads false, goes on to install the list and not to the fallback.
C22_InstalledVerbatim ==
  [][\A j \in Live :
       (/\ j.pc = "got"
        /\ j.res.ok
        /\ ~stop_threads
        /\ CopiesIn(j, jobs') < CopiesIn(j, jobs))
       => \E k \in BagToSet(jobs') :
            /\ CopiesIn(k, jobs') > CopiesIn(k, jobs)
            /\ k.pc = "install"]_vars

\* C22 as amended: such a thread goes on to install the list when the list
\* is not empty, keeping it as it was parsed, and to the fallback when it
\* is empty; the installation makes enemy_moves that list, queue for queue,
\* whatever the number of enemies, and ends the thread.
C22_NonEmptyInstalledVerbatim ==
  [][\A j \in Live :
       /\ (/\ j.pc = "got"
           /\ j.res.ok
           /\ ~stop_threads
           /\ CopiesIn(j, jobs') < CopiesIn(j, jobs))
          => \E k \in BagToSet(jobs') :
               /\ CopiesIn(k, jobs') > CopiesIn(k, jobs)
               /\ k.res = j.res
               /\ k.pc = IF j.res.moves # <<>> THEN "install" ELSE "fb_check"
       /\ (/\ j.pc = "install"
           /\ CopiesIn(j, jobs') < CopiesIn(j, jobs))
          => /\ enemy_moves' = j.res.moves
             /\ BagCardinality(jobs') < BagCardinality(jobs)]_vars

\* the list of two queues that the oracle returned, one of them empty, is
\* installed for fewer than two enemies
C22_Witness ==
  /\ enemy_moves = <<<<OraclePos>>, <<>>>>
  /\ Len(enemies) < 2
  /\ ~stop_threads

\* ----------------------------------------- claims on the limiter's section

\* the threads that are between taking api_lock and releasing it
InSection(j) == j.pc \in {"prune", "limit", "append"} \/ j.locked

\* C23: prune, count check and append are one step of a thread with respect
\* to the other threads: at most one thread is between taking api_lock and
\* releasing it, api_call_timestamps changes only by a step of that thread,
\* an append finds fewer than 15 entries, and the list never holds more
\* than 15.
C23_AtomicAdmission ==
  /\ [](Len(api_call_timestamps) <= RateLimit)
  /\ [](\A j \in Live :
          InSection(j)
            => /\ api_lock
               /\ CopiesIn(j, jobs) = 1
               /\ \A k \in Live \ {j} : ~InSection(k))
  /\ [][api_call_timestamps' # api_call_timestamps
         => /\ \E j \in Live :
                 /\ j.pc \in {"prune", "append"}
                 /\ CopiesIn(j, jobs') < CopiesIn(j, jobs)
            /\ Len(api_call_timestamps') > Len(api_call_timestamps)
                 => /\ Len(api_call_timestamps) < RateLimit
                    /\ Len(api_call_timestamps')
                         = Len(api_call_timestamps) + 1]_vars

\* one slot is free; a thread that has passed the count check is about to
\* take it, and another thread waits for api_lock
C23_Witness ==
  /\ Len(api_call_timestamps) = RateLimit - 1
  /\ \E j \in Live : j.pc = "append"
  /\ \E k \in Live : k.pc = "lock"

\* ------------------------------------------------- claims on the request

\* C24: a tick starts a fetch_moves thread only when the queue of every
\* enemy is empty: no thread is started while zip pairs some enemy with a
\* queue that still holds a position.
C24_RequestOnlyWhenAllEmpty ==
  [][(/\ mainpc = "moves"
      /\ mainpc' = "consume"
      /\ nthreads' > nthreads)
     => \A k \in DOMAIN enemies \cap DOMAIN enemy_moves :
          enemy_moves[k] = <<>>]_vars

\* ------------------------------------------------- claims on the writers

\* C25: when a thread's fallback_enemy_moves appends its last queue with
\* stop_threads false, enemy_moves holds the queues of that fallback and no
\* other: one queue per enemy the fallback iterated, in their order, none
\* longer than num_moves.  (A queue may be shorter by what the consumer has
\* popped meanwhile; that is C7's subject and is not counted here.)
C25_NoOverlappingWriters ==
  [][\A j \in Live :
       (/\ j.pc = "fb_loop"
        /\ j.i = j.n
        /\ ~stop_threads
        /\ CopiesIn(j, jobs') < CopiesIn(j, jobs))
       => /\ Len(enemy_moves') = j.n
          /\ \A k \in DOMAIN enemy_moves' :
               /\ queue_ids'[k] = k
               /\ Len(enemy_moves'[k]) <= j.num]_vars

====
